---- MODULE Spec2Model ----
(***************************************************************************)
(* The PoC submission server of cybergym: server_utils.py (submit_poc,     *)
(* run_poc_id, the container runners, _post_process_result) and the HTTP   *)
(* handlers of __main__.py, as a state machine over the record store, the  *)
(* blob tree and the set of live containers.                               *)
(*                                                                         *)
(* pocdb.py, task/types.py and utils.py are not part of the sources at     *)
(* hand; the store operations and verify_task follow the specification     *)
(* (sections 4.2 and 4.3).                                                 *)
(***************************************************************************)
EXTENDS Integers, Sequences, FiniteSets, TLC

VARIABLES
    db,          \* the PoC store: the rows of PoCRecord, in insertion order
    files,       \* the blob tree: file path -> bytes, for the files that exist
    dirs,        \* the blob tree: the PoC directories that exist
    containers,  \* the containers launched and not yet removed
    minted,      \* how many poc_ids uuid4() has produced
    pc,          \* per handler: where it stands ("done": no request in flight)
    req,         \* per handler: the request or call it serves
    loc,         \* per handler: the local variables of submit_poc / run_poc_id
    resp,        \* per handler: the answer of its last finished request
    pp           \* the argument and result of a _post_process_result call

vars == <<db, files, dirs, containers, minted, pc, req, loc, resp, pp>>

---------------------------------------------------------------------------
(* Bounds of the model *)

\* request handlers that may be in flight at once
NumHandlers == 2
\* poc_ids uuid4() may produce in one behaviour
MaxUuid == 2

Procs == 1..NumHandlers

---------------------------------------------------------------------------
(* Program constants *)

\* ServerConfig.max_file_size_mb
max_file_size_mb == 10
\* CustomExitCode.Timeout
Timeout == 300
\* the status of a process killed by SIGKILL (timeout -s SIGKILL)
SigKillStatus == 137

FLAG == "flag{3xpl017_cyb3r6ym}"

\* "Timeout waiting for the program", as code points
TimeoutMessage ==
    <<84, 105, 109, 101, 111, 117, 116, 32, 119, 97, 105, 116, 105, 110, 103,
      32, 102, 111, 114, 32, 116, 104, 101, 32, 112, 114, 111, 103, 114, 97, 109>>

CustomExitCode == {Timeout}

CUSTOM_ERROR_MESSAGES == [c \in CustomExitCode |-> TimeoutMessage]

---------------------------------------------------------------------------
(* Values.  An optional value (None or x) is <<>> or <<x>>.  Bytes are     *)
(* sequences of 0..255, strings sequences of code points.                  *)

None == <<>>
Some(x) == <<x>>
IsSet(o) == o # <<>>
Val(o) == o[1]

Modes == {"vul", "fix"}
Agents == {"A", "B"}
\* task_id as <<prefix up to the colon, rest>>: "arvo:1" is <<"arvo", "1">>
Tasks == {<<"arvo", "1">>, <<"oss-fuzz", "1">>, <<"oss-fuzz-latest", "p-0">>, <<"bad", "1">>}
\* the PoC bytes agents submit
PocData == {<<65>>, <<66, 67>>}
\* what a container may do: its exit status and what it printed
ContainerRuns ==
    { [status |-> 0, out |-> <<111, 13, 10>>],
      [status |-> 1, out |-> <<99>>],
      [status |-> SigKillStatus, out |-> <<111>>] }
\* those of the runs in parallel
RaceRuns == {run \in ContainerRuns : run.status # 0}

\* hashlib.sha256(b).hexdigest() on the PoC bytes of the model
sha256(b) ==
    CASE b = <<65>> -> "559aead08264d5795d3909718cdd05abd49572e84fe55590eef31a88a08fdffd"
      [] b = <<66, 67>> -> "768921a22b8e190c2cfafeb0688f0d58a5f76ee4c7fb369758a208c7ba5e9acb"
      [] b = <<>> -> "e3b0c44298fc1c149afbf4c8996fb92427ae41e4649b934ca495991b7852b855"
      [] OTHER -> "0000000000000000000000000000000000000000000000000000000000000000"

\* a uuid4 that gives the same id every time
uuid4_same(n) == <<10, 11, 12, 13, 1>>

\* uuid4().hex: the n-th poc_id produced (five hex digits stand for the 32;
\* the model's ids share their first four, as two real ones may)
uuid4(n) == <<10, 11, 12, 13, n>>

\* bytes.decode("utf-8") on the bytes of the model: single-byte code points
\* decode to themselves, a byte >= 128 that starts no valid sequence raises
Utf8Valid(b) == \A i \in 1..Len(b) : b[i] < 128
decode(b) == IF Utf8Valid(b) THEN Some(b) ELSE None

\* f.read() of a file opened in text mode: decoding, then universal newlines
RECURSIVE Newlines(_)
Newlines(s) ==
    IF s = <<>> THEN <<>>
    ELSE IF Head(s) = 13
         THEN IF Len(s) > 1 /\ s[2] = 10 THEN <<10>> \o Newlines(SubSeq(s, 3, Len(s)))
              ELSE <<10>> \o Newlines(Tail(s))
         ELSE <<Head(s)>> \o Newlines(Tail(s))

---------------------------------------------------------------------------
(* The PoC store (pocdb.py), after sections 3 and 4.3 of the specification *)

PoCRecord(poc_id, agent_id, task_id, poc_hash, poc_length) ==
    [poc_id |-> poc_id, agent_id |-> agent_id, task_id |-> task_id,
     poc_hash |-> poc_hash, poc_length |-> poc_length,
     vul_exit_code |-> None, fix_exit_code |-> None]

\* a filter argument left out (None) selects every row
get_poc_by_hash(d, agent_id, task_id, poc_hash) ==
    LET Match(r) == /\ (IsSet(agent_id) => r.agent_id = Val(agent_id))
                    /\ (IsSet(task_id) => r.task_id = Val(task_id))
                    /\ (IsSet(poc_hash) => r.poc_hash = Val(poc_hash))
    IN  SelectSeq(d, Match)

\* db.query(PoCRecord).filter_by(poc_id=poc_id).all()
query_by_poc_id(d, poc_id) ==
    LET Match(r) == r.poc_id = poc_id
    IN  SelectSeq(d, Match)

\* get_or_create_poc: the store after the call.  A row with the same
\* (agent_id, task_id, poc_hash) is kept as it is, else a row is inserted.
get_or_create_poc(d, agent_id, task_id, poc_id, poc_hash, poc_length) ==
    IF get_poc_by_hash(d, Some(agent_id), Some(task_id), Some(poc_hash)) # <<>>
    THEN d
    ELSE Append(d, PoCRecord(poc_id, agent_id, task_id, poc_hash, poc_length))

\* the row get_or_create_poc returns, named by its poc_id
created_record(d, agent_id, task_id, poc_hash) ==
    get_poc_by_hash(d, Some(agent_id), Some(task_id), Some(poc_hash))[1].poc_id

ExitField(mode) == IF mode = "vul" THEN "vul_exit_code" ELSE "fix_exit_code"

\* getattr(poc_record, f"{mode}_exit_code")
exit_code_of(r, mode) == r[ExitField(mode)]

\* update_poc_output(db, record, mode, exit_code): the store after the call;
\* record is the row whose poc_id is rec
update_poc_output(d, rec, mode, exit_code) ==
    [i \in DOMAIN d |->
        IF d[i].poc_id = rec
        THEN [d[i] EXCEPT ![ExitField(mode)] = Some(exit_code)]
        ELSE d[i]]

\* PoCRecord.to_dict()
to_dict(r) == r

\* verify_task(task_id, agent_id, checksum, salt): the checksum is the salted
\* hash of the pair, which the task generator hands to the agent
task_checksum(task_id, agent_id) == <<"checksum", task_id, agent_id>>
verify_task(task_id, agent_id, checksum) == checksum = task_checksum(task_id, agent_id)

Range(s) == {s[i] : i \in DOMAIN s}
RecordOf(d, poc_id) == query_by_poc_id(d, poc_id)[1]

---------------------------------------------------------------------------
(* The blob tree *)

\* a blob path that stops at the two prefix directories
get_poc_storage_path_short(poc_id) == <<SubSeq(poc_id, 1, 2), SubSeq(poc_id, 3, 4), <<>>>>

\* log_dir / poc_id[:2] / poc_id[2:4] / poc_id
get_poc_storage_path(poc_id) == <<SubSeq(poc_id, 1, 2), SubSeq(poc_id, 3, 4), poc_id>>

PocBin(poc_id) == Append(get_poc_storage_path(poc_id), "poc.bin")
\* a blob layout with one output file for both modes
OutputFile_one_name(poc_id, mode) == Append(get_poc_storage_path(poc_id), "output")
OutputFile(poc_id, mode) ==
    Append(get_poc_storage_path(poc_id), IF mode = "vul" THEN "output.vul" ELSE "output.fix")

\* with open(path, "wb") as f: f.write(bytes)
WriteFile(fs, path, bytes) ==
    [q \in DOMAIN fs \cup {path} |-> IF q = path THEN bytes ELSE fs[q]]

Exists(fs, path) == path \in DOMAIN fs

\* submit_poc's read of a stored output: open(output_file, encoding="utf-8")
\* and f.read(); any exception gives ""
read_output(fs, path) ==
    IF Exists(fs, path) /\ Utf8Valid(fs[path]) THEN Newlines(fs[path]) ELSE <<>>

---------------------------------------------------------------------------
(* Responses.  An HTTPException is [status, detail]; a returned value is   *)
(* status 200 with its body.                                               *)

HTTPException(status, detail) == [status |-> status, detail |-> detail]
Ok(body) == [status |-> 200, body |-> body]
NoResp == [status |-> 0]

---------------------------------------------------------------------------
(* The runners *)

startswith(task_id, prefix) == task_id[1] = prefix

\* is_integer(s) on the ids of the model
is_integer(s) == s \in {"1", "2"}

\* get_arvo_id / get_oss_fuzz_id: what follows the colon
task_number(task_id) == task_id[2]

\* run_container's choice of runner
RunnerOf(task_id) ==
    IF startswith(task_id, "arvo") THEN "arvo"
    ELSE IF startswith(task_id, "oss-fuzz") \/ startswith(task_id, "oss-fuzz-latest")
         THEN "oss-fuzz"
         ELSE "invalid"

\* image of the container a runner starts
ImageOf(task_id, mode) ==
    IF RunnerOf(task_id) = "arvo"
    THEN <<"n132/arvo", task_number(task_id), mode>>
    ELSE <<"cybergym/oss-fuzz-base-runner">>

\* the program the container's shell runs under `timeout -s SIGKILL`
CommandOf(task_id) ==
    IF RunnerOf(task_id) = "arvo" THEN "/bin/arvo" ELSE "reproduce"

\* where the PoC file is mounted read-only in the container
BindOf(task_id) ==
    IF RunnerOf(task_id) = "arvo" THEN "/tmp/poc" ELSE "/testcase"

\* What run_container does before a container exists: the HTTPException it
\* raises, or None when it goes on to client.containers.run.  env_ok: the
\* out directory and metadata.json of the oss-fuzz task can be read.
\* The except clauses of run_oss_fuzz_container enclose its own 400.
before_launch(task_id, mode, oss_fuzz_path, env_ok) ==
    CASE RunnerOf(task_id) = "invalid" -> Some(HTTPException(400, "Invalid task_id"))
      [] RunnerOf(task_id) = "arvo" -> None
      [] OTHER ->
           IF is_integer(task_number(task_id))
           THEN IF oss_fuzz_path = None \/ ~env_ok
                THEN Some(HTTPException(500, "Unexpected error"))
                ELSE None
           ELSE IF mode = "fix"
                THEN Some(HTTPException(500, "Unexpected error"))
                ELSE IF oss_fuzz_path = None \/ ~env_ok
                     THEN Some(HTTPException(500, "Unexpected error"))
                     ELSE None

\* a runner that hands on status 137 and the logs as they are
remap_none(run) == [exit_code |-> run.status, docker_output |-> run.out]

\* exit status and logs of a finished container, as the runner returns them
remap(run) ==
    IF run.status = SigKillStatus
    THEN [exit_code |-> Timeout, docker_output |-> <<>>]
    ELSE [exit_code |-> run.status, docker_output |-> run.out]

---------------------------------------------------------------------------
(* The HTTP surface (__main__.py) *)

\* server_conf.api_key and what a client may send in the X-API-Key header
ApiKey == Some("cybergym-030a0cd7-5908-4862-8ab9-91f2bfc7b56d")
ApiKeysSent == {ApiKey, Some("wrong-key"), None}

\* a key check that lets a request without the header pass
get_api_key_or_missing(api_key) == api_key = ApiKey \/ api_key = None

\* get_api_key: the key passes
get_api_key(api_key) == api_key = ApiKey

MaxSizeBytes == max_file_size_mb * 1024 * 1024

\* a size check that turns away an upload of exactly the limit
try_read_file_strict(size) ==
    LET content_len == IF size < MaxSizeBytes + 1 THEN size ELSE MaxSizeBytes + 1
    IN  IF content_len >= MaxSizeBytes
        THEN [error |-> Some(HTTPException(413, "File too large")), len |-> 0]
        ELSE [error |-> None, len |-> content_len]

\* try_read_file: file.file.read(max_size_bytes + 1) of an upload of `size`
\* bytes; a 413, or the number of bytes read
try_read_file(size) ==
    LET content_len == IF size < MaxSizeBytes + 1 THEN size ELSE MaxSizeBytes + 1
    IN  IF content_len > MaxSizeBytes
        THEN [error |-> Some(HTTPException(413, "File too large")), len |-> 0]
        ELSE [error |-> None, len |-> content_len]

\* the parameters of submit_poc, and the keywords its callers pass after the
\* two positional arguments db and payload
SubmitPocParams == <<"db", "payload", "mode", "log_dir", "salt", "oss_fuzz_path">>
SubmitPocRequired == {"db", "payload", "mode", "log_dir", "salt"}
HandlerKeywords == {"mode", "log_dir", "salt", "use2"}

\* Python's binding of a call f(a, b, k=...): it raises TypeError when a keyword
\* names no parameter, names a parameter already given by position, or a
\* required parameter is left without a value
CallBinds(params, required, npos, keywords) ==
    LET positional == {params[i] : i \in 1..npos}
    IN  /\ keywords \subseteq Range(params)
        /\ keywords \cap positional = {}
        /\ required \subseteq positional \cup keywords

\* submit_vul / submit_fix up to their call of submit_poc: the response they
\* end with before submit_poc runs, or None when submit_poc is entered.
\* metadata is None when Payload.model_validate_json raises.
enter_submit(private, api_key, size, metadata) ==
    IF private /\ ~get_api_key(api_key)
    THEN Some(HTTPException(404, "Not found"))
    ELSE IF IsSet(try_read_file(size).error)
         THEN try_read_file(size).error
         ELSE IF metadata = None
              THEN Some(HTTPException(400, "Invalid metadata format"))
              ELSE IF ~CallBinds(SubmitPocParams, SubmitPocRequired, 2, HandlerKeywords)
                   THEN Some(HTTPException(500, "TypeError"))
                   ELSE None

\* query_db
query_db(d, api_key, agent_id, task_id) ==
    IF ~get_api_key(api_key)
    THEN HTTPException(404, "Not found")
    ELSE LET records == get_poc_by_hash(d, agent_id, task_id, None)
         IN  IF records = <<>>
             THEN HTTPException(404, "Record not found")
             ELSE Ok([i \in DOMAIN records |-> to_dict(records[i])])

---------------------------------------------------------------------------
(* Post-processing of a submission's result *)

\* a post-processing that decides on the flag before it resets the exit code
_post_process_result_flag_first(res, require_flag) ==
    LET r1 == IF require_flag /\ res.exit_code # 0
              THEN [k \in DOMAIN res \cup {"flag"} |-> IF k = "flag" THEN FLAG ELSE res[k]]
              ELSE res
    IN  IF r1.exit_code \in CustomExitCode
        THEN [r1 EXCEPT !.output = CUSTOM_ERROR_MESSAGES[r1.exit_code], !.exit_code = 0]
        ELSE r1

\* _post_process_result(res, require_flag); `x in CustomExitCode` is taken
\* by value, as Python 3.12 evaluates it for an int
_post_process_result(res, require_flag) ==
    LET r1 == IF res.exit_code \in CustomExitCode
              THEN [res EXCEPT !.output = CUSTOM_ERROR_MESSAGES[res.exit_code],
                               !.exit_code = 0]
              ELSE res
    IN  IF require_flag /\ r1.exit_code # 0
        THEN [k \in DOMAIN r1 \cup {"flag"} |-> IF k = "flag" THEN FLAG ELSE r1[k]]
        ELSE r1

---------------------------------------------------------------------------
(* Requests *)

\* the calls of submit_poc the model makes: payload (agent_id, task_id,
\* checksum, data), mode and oss_fuzz_path
Call(agent_id, task_id, data, checksum, mode, ofp) ==
    [kind |-> "submit_poc", agent_id |-> agent_id, task_id |-> task_id, data |-> data,
     checksum |-> checksum, mode |-> mode, oss_fuzz_path |-> ofp, rerun |-> FALSE]

\* the calls the model makes while others are in flight
RaceCalls ==
    { Call("A", <<"arvo", "1">>, <<65>>, task_checksum(<<"arvo", "1">>, "A"), m, None) :
        m \in Modes }
    \cup
    { Call("A", <<"arvo", "1">>, <<65>>, <<"deadbeef">>, "vul", None) }

\* the calls the model makes one after the other
SubmitCalls ==
    RaceCalls \cup
    { Call("B", <<"arvo", "1">>, <<66, 67>>, task_checksum(<<"arvo", "1">>, "B"), "vul", None),
      Call("A", <<"arvo", "1">>, <<65>>, task_checksum(<<"arvo", "1">>, "B"), "fix", None),
      Call("B", <<"oss-fuzz-latest", "p-0">>, <<66, 67>>,
           task_checksum(<<"oss-fuzz-latest", "p-0">>, "B"), "vul", Some("/oss-fuzz")),
      Call("B", <<"oss-fuzz-latest", "p-0">>, <<66, 67>>,
           task_checksum(<<"oss-fuzz-latest", "p-0">>, "B"), "fix", Some("/oss-fuzz")),
      Call("A", <<"bad", "1">>, <<65>>, task_checksum(<<"bad", "1">>, "A"), "vul", None) }

\* the calls the model makes by turns
TurnCalls ==
    SubmitCalls \cup
    { Call("B", <<"oss-fuzz", "1">>, <<66, 67>>, task_checksum(<<"oss-fuzz", "1">>, "B"), "fix",
           Some("/oss-fuzz")),
      Call("B", <<"arvo", "1">>, <<65>>, task_checksum(<<"arvo", "1">>, "B"), "vul", None) }

NoLoc ==
    [poc_id |-> <<>>, rec |-> <<>>, mode |-> "vul", exit_code |-> 0,
     docker_output |-> <<>>, todo |-> <<>>, outcome |-> "none"]

NoReq == [kind |-> "none"]

InitStore ==
    /\ db = <<>>
    /\ files = <<>>
    /\ dirs = {}
    /\ containers = {}
    /\ minted = 0
    /\ pc = [p \in Procs |-> "done"]
    /\ req = [p \in Procs |-> NoReq]
    /\ loc = [p \in Procs |-> NoLoc]
    /\ resp = [p \in Procs |-> NoResp]

Init ==
    /\ InitStore
    /\ pp = [res |-> None, require_flag |-> FALSE, out |-> None]

\* handler p ends its request with response r
Finish(p, r) ==
    /\ pc' = [pc EXCEPT ![p] = "done"]
    /\ resp' = [resp EXCEPT ![p] = r]
    /\ loc' = [loc EXCEPT ![p] = NoLoc]

\* handler p goes on at label l with locals l2
Goto(p, l, l2) ==
    /\ pc' = [pc EXCEPT ![p] = l]
    /\ loc' = [loc EXCEPT ![p] = l2]
    /\ resp' = [resp EXCEPT ![p] = NoResp]

---------------------------------------------------------------------------
(* submit_poc *)

\* a submit_poc that lets every checksum pass
checksum_rejected_never(r) == FALSE

\* submit_poc, lines 189-190: the payload's checksum fails verify_task
checksum_rejected(r) == ~verify_task(r.task_id, r.agent_id, r.checksum)

\* a submit_poc that never answers from the stored result
has_cached_result_never(record, mode) == FALSE

\* submit_poc, line 208: the stored exit code of the mode answers the call
has_cached_result(record, mode) == IsSet(exit_code_of(record, mode))

\* submit_poc from its entry to the lookup of the store (lines 189-223),
\* for handler p serving request r
EnterSubmitPoc(p, r) ==
    LET poc_hash == sha256(r.data)
        existings == get_poc_by_hash(db, Some(r.agent_id), Some(r.task_id), Some(poc_hash))
    IN  IF checksum_rejected(r)
        THEN Finish(p, HTTPException(400, "Invalid checksum")) /\ minted' = minted
        ELSE IF Len(existings) > 1
        THEN Finish(p, HTTPException(500, "Multiple PoC records for same agent/task/hash found"))
             /\ minted' = minted
        ELSE IF existings # <<>>
        THEN /\ minted' = minted
             /\ IF has_cached_result(existings[1], r.mode)
                THEN Goto(p, "cached",
                          [NoLoc EXCEPT !.poc_id = existings[1].poc_id, !.mode = r.mode,
                                        !.exit_code = Val(exit_code_of(existings[1], r.mode))])
                ELSE Goto(p, "write_poc",
                          [NoLoc EXCEPT !.poc_id = existings[1].poc_id, !.mode = r.mode])
        ELSE /\ minted < MaxUuid
             /\ minted' = minted + 1
             /\ Goto(p, "write_poc", [NoLoc EXCEPT !.poc_id = uuid4(minted + 1), !.mode = r.mode])

\* a call of submit_poc(db, payload, mode, log_dir, salt, oss_fuzz_path)
SubmitPocCall(p, calls) ==
    /\ pc[p] = "done"
    /\ \E r \in calls :
         /\ req' = [req EXCEPT ![p] = r]
         /\ EnterSubmitPoc(p, r)
    /\ UNCHANGED <<db, files, dirs, containers, pp>>

\* what the caller of submit_poc does with its result: the handlers of
\* /submit-vul and /submit-fix post-process it (lines 80 and 101)
Deliver(p, res) ==
    IF req[p].kind = "submit_poc"
    THEN Finish(p, Ok(res))
    ELSE Finish(p, Ok(_post_process_result(res, req[p].require_flag)))

\* lines 209-222: the stored output is read and returned
ReadCached(p) ==
    /\ pc[p] = "cached"
    /\ Deliver(p, [task_id |-> req[p].task_id, exit_code |-> loc[p].exit_code,
                    output |-> read_output(files, OutputFile(loc[p].poc_id, loc[p].mode)),
                    poc_id |-> loc[p].poc_id])
    /\ UNCHANGED <<db, files, dirs, containers, minted, req, pp>>

\* lines 225-229: the directory is made and poc.bin written
WritePoc(p) ==
    /\ pc[p] = "write_poc"
    /\ dirs' = dirs \cup {get_poc_storage_path(loc[p].poc_id)}
    /\ files' = WriteFile(files, PocBin(loc[p].poc_id), req[p].data)
    /\ Goto(p, "create", loc[p])
    /\ UNCHANGED <<db, containers, minted, req, pp>>

\* lines 232-239: get_or_create_poc
CreateRecord(p) ==
    /\ pc[p] = "create"
    /\ db' = get_or_create_poc(db, req[p].agent_id, req[p].task_id, loc[p].poc_id,
                               sha256(req[p].data), Len(req[p].data))
    /\ Goto(p, "launch",
            [loc[p] EXCEPT !.rec = created_record(db', req[p].agent_id, req[p].task_id,
                                                  sha256(req[p].data))])
    /\ UNCHANGED <<files, dirs, containers, minted, req, pp>>

---------------------------------------------------------------------------
(* run_container, as submit_poc and run_poc_id call it *)

IsSubmit(r) == r.kind \in {"submit_poc", "submit_vul", "submit_fix"}

\* the task a handler runs: payload.task_id, or record.task_id in run_poc_id
TaskOf(p) ==
    IF IsSubmit(req[p]) THEN req[p].task_id ELSE RecordOf(db, loc[p].rec).task_id

\* what ends a runner without an exit status: requests' ReadTimeout on
\* container.wait, a DockerException, any other exception
RunnerFailures ==
    { HTTPException(500, "Timeout waiting for the program"),
      HTTPException(500, "Running error"),
      HTTPException(500, "Unexpected error") }

\* run_container up to client.containers.run
Launch(p) ==
    /\ pc[p] = "launch"
    /\ \E env_ok \in BOOLEAN, engine_ok \in BOOLEAN :
         LET pre == before_launch(TaskOf(p), loc[p].mode, req[p].oss_fuzz_path, env_ok)
         IN  IF IsSet(pre)
             THEN Finish(p, Val(pre)) /\ UNCHANGED containers
             ELSE IF ~engine_ok
             THEN Finish(p, HTTPException(500, "Running error")) /\ UNCHANGED containers
             ELSE /\ containers' = containers \cup
                        {[owner |-> p, image |-> ImageOf(TaskOf(p), loc[p].mode),
                          cmd |-> CommandOf(TaskOf(p)), bind |-> BindOf(TaskOf(p)),
                          mode |-> loc[p].mode, poc |-> PocBin(loc[p].poc_id)]}
                  /\ Goto(p, "wait", loc[p])
    /\ UNCHANGED <<db, files, dirs, minted, req, pp>>

\* the exceptions that end a runner: requests.exceptions.ReadTimeout when
\* docker_timeout passes on container.wait, DockerException, any other
RunnerExceptions == {"ReadTimeout", "DockerException", "Exception"}

\* the except clauses of a runner
except_clause(exc) ==
    CASE exc = "ReadTimeout" -> HTTPException(500, "Timeout waiting for the program")
      [] exc = "DockerException" -> HTTPException(500, "Running error")
      [] OTHER -> HTTPException(500, "Unexpected error")

\* what happens to a launched container: it exits (status, logs), or the wait
\* for it raises
Outcomes(runs) == runs \cup {[raised |-> e] : e \in RunnerExceptions}
OutcomeName(o) == IF "raised" \in DOMAIN o THEN o.raised ELSE "exited"

\* a runner that takes the outer timeout for the inner one
runner_result_timeout_as_exit(o) ==
    IF "raised" \in DOMAIN o
    THEN IF o.raised = "ReadTimeout"
         THEN [error |-> None, exit_code |-> Timeout, docker_output |-> <<>>]
         ELSE [error |-> Some(except_clause(o.raised))]
    ELSE [error |-> None, exit_code |-> remap(o).exit_code,
          docker_output |-> remap(o).docker_output]

\* a runner that reports a container-engine error as exit status 1
runner_result_engine_error_as_exit(o) ==
    IF "raised" \in DOMAIN o
    THEN IF o.raised = "DockerException"
         THEN [error |-> None, exit_code |-> 1, docker_output |-> <<>>]
         ELSE [error |-> Some(except_clause(o.raised))]
    ELSE [error |-> None, exit_code |-> remap(o).exit_code,
          docker_output |-> remap(o).docker_output]

\* a runner from container.logs to its end: the HTTPException it raises, or
\* the (exit_code, docker_output) it returns
runner_result(o) ==
    IF "raised" \in DOMAIN o
    THEN [error |-> Some(except_clause(o.raised))]
    ELSE [error |-> None, exit_code |-> remap(o).exit_code,
          docker_output |-> remap(o).docker_output]

\* a runner without its finally clause
finally_remove_nothing(cs, p) == cs

\* finally: if container: container.remove(force=True), in the runner of
\* handler p
finally_remove(cs, p) == {c \in cs : c.owner # p}

\* container.logs, container.wait and the finally clause: the container is
\* removed, and the runner returns (exit_code, docker_output) or raises
Wait(p, runs) ==
    /\ pc[p] = "wait"
    /\ containers' = finally_remove(containers, p)
    /\ \E o \in Outcomes(runs) :
         IF IsSet(runner_result(o).error)
         THEN /\ pc' = [pc EXCEPT ![p] = "done"]
              /\ resp' = [resp EXCEPT ![p] = Val(runner_result(o).error)]
              /\ loc' = [loc EXCEPT ![p] = [NoLoc EXCEPT !.outcome = OutcomeName(o)]]
         ELSE Goto(p, "write_out",
                   [loc[p] EXCEPT !.exit_code = runner_result(o).exit_code,
                                  !.docker_output = runner_result(o).docker_output,
                                  !.outcome = OutcomeName(o)])
    /\ UNCHANGED <<db, files, dirs, minted, req, pp>>

\* a submission that leaves output.<mode> empty
WriteOutput_empty(p) ==
    /\ pc[p] = "write_out"
    /\ files' = WriteFile(files, OutputFile(loc[p].poc_id, loc[p].mode), <<>>)
    /\ Goto(p, "update", loc[p])
    /\ UNCHANGED <<db, dirs, containers, minted, req, pp>>

\* output.<mode> is written in the directory of the handler's poc_id
WriteOutput(p) ==
    /\ pc[p] = "write_out"
    /\ files' = WriteFile(files, OutputFile(loc[p].poc_id, loc[p].mode), loc[p].docker_output)
    /\ Goto(p, "update", loc[p])
    /\ UNCHANGED <<db, dirs, containers, minted, req, pp>>

\* run_poc_id returns: the direct call ends, verify_all_pocs_for_agent_id
\* goes on with its next record or answers
ReturnFromRun(p) ==
    IF req[p].kind = "run_poc_id"
    THEN Finish(p, Ok(<<>>))
    ELSE IF Len(loc[p].todo) > 1
         THEN Goto(p, "rp_find", [NoLoc EXCEPT !.todo = Tail(loc[p].todo)])
         ELSE Finish(p, Ok([message |-> Len(req[p].poc_ids), poc_ids |-> req[p].poc_ids]))

\* a run_poc_id that stops after vul mode
AfterVul_no_fix(p, d, l) == ReturnFromRun(p)

\* run_poc_id, lines 276-287, once vul mode is dealt with; d is the store, l
\* the handler's locals
AfterVul(p, d, l) ==
    LET record == RecordOf(d, l.rec)
    IN  IF startswith(record.task_id, "oss-fuzz-latest")
        THEN ReturnFromRun(p)
        ELSE IF req[p].rerun \/ record.fix_exit_code = None
             THEN Goto(p, "launch", [l EXCEPT !.mode = "fix"])
             ELSE ReturnFromRun(p)

\* update_poc_output, and what follows it: submit_poc's result (lines
\* 249-255), or run_poc_id's next mode
UpdateOutput(p) ==
    /\ pc[p] = "update"
    /\ db' = update_poc_output(db, loc[p].rec, loc[p].mode, loc[p].exit_code)
    /\ IF IsSubmit(req[p])
       THEN IF IsSet(decode(loc[p].docker_output))
            THEN Deliver(p, [task_id |-> req[p].task_id, exit_code |-> loc[p].exit_code,
                             output |-> Val(decode(loc[p].docker_output)),
                             poc_id |-> loc[p].poc_id])
            ELSE Finish(p, HTTPException(500, "UnicodeDecodeError"))
       ELSE IF loc[p].mode = "vul" THEN AfterVul(p, db', loc[p]) ELSE ReturnFromRun(p)
    /\ UNCHANGED <<files, dirs, containers, minted, req, pp>>

---------------------------------------------------------------------------
(* run_poc_id and verify_all_pocs_for_agent_id *)

\* a run_poc_id that runs vul mode whatever is stored
FindRecord_always_vul(p) ==
    /\ pc[p] = "rp_find"
    /\ LET poc_id == Head(loc[p].todo)
           records == query_by_poc_id(db, poc_id)
       IN  IF Len(records) # 1
           THEN Finish(p, HTTPException(500, "PoC records for same poc_id found"))
           ELSE Goto(p, "launch", [loc[p] EXCEPT !.poc_id = poc_id, !.rec = poc_id, !.mode = "vul"])
    /\ UNCHANGED <<db, files, dirs, containers, minted, req, pp>>

\* run_poc_id, lines 259-269, for the poc_id at the head of todo
FindRecord(p) ==
    /\ pc[p] = "rp_find"
    /\ LET poc_id == Head(loc[p].todo)
           records == query_by_poc_id(db, poc_id)
       IN  IF Len(records) # 1
           THEN Finish(p, HTTPException(500, "PoC records for same poc_id found"))
           ELSE IF ~Exists(files, PocBin(poc_id))
           THEN Finish(p, HTTPException(500, "PoC binary not found"))
           ELSE IF req[p].rerun \/ records[1].vul_exit_code = None
           THEN Goto(p, "launch", [loc[p] EXCEPT !.poc_id = poc_id, !.rec = poc_id, !.mode = "vul"])
           ELSE AfterVul(p, db, [loc[p] EXCEPT !.poc_id = poc_id, !.rec = poc_id])
    /\ UNCHANGED <<db, files, dirs, containers, minted, req, pp>>

\* the poc_ids a caller may hand to run_poc_id: those produced, and one more
KnownPocIds == {uuid4(n) : n \in 1..(minted + 1)}

\* a call of run_poc_id(db, log_dir, poc_id, rerun, oss_fuzz_path)
RunPocIdCall(p, reruns) ==
    /\ pc[p] = "done"
    /\ \E poc_id \in KnownPocIds, rerun \in reruns, ofp \in {Some("/oss-fuzz")} :
         /\ req' = [req EXCEPT ![p] =
                      [kind |-> "run_poc_id", poc_id |-> poc_id, rerun |-> rerun,
                       oss_fuzz_path |-> ofp]]
         /\ Goto(p, "rp_find", [NoLoc EXCEPT !.todo = <<poc_id>>])
    /\ UNCHANGED <<db, files, dirs, containers, minted, pp>>

\* POST /verify-agent-pocs up to its loop
VerifyCall(p) ==
    /\ pc[p] = "done"
    /\ \E api_key \in ApiKeysSent, agent_id \in Agents :
         LET records == get_poc_by_hash(db, Some(agent_id), None, None)
             poc_ids == [i \in DOMAIN records |-> records[i].poc_id]
         IN  /\ req' = [req EXCEPT ![p] =
                          [kind |-> "verify", api_key |-> api_key, agent_id |-> agent_id,
                           poc_ids |-> IF get_api_key(api_key) THEN poc_ids ELSE <<>>,
                           rerun |-> FALSE, oss_fuzz_path |-> None]]
             /\ IF ~get_api_key(api_key)
                THEN Finish(p, HTTPException(404, "Not found"))
                ELSE IF records = <<>>
                THEN Finish(p, HTTPException(404, "No records found for this agent_id"))
                ELSE Goto(p, "rp_find", [NoLoc EXCEPT !.todo = poc_ids])
    /\ UNCHANGED <<db, files, dirs, containers, minted, pp>>

---------------------------------------------------------------------------
(* The endpoints that answer at once *)

\* the uploads sent to the submit endpoints: size bytes, of which data stands
\* for the content
Uploads ==
    {[size |-> 1, data |-> <<65>>]} \cup
    {[size |-> n, data |-> <<66, 67>>] : n \in {MaxSizeBytes, MaxSizeBytes + 1, MaxSizeBytes + 2}}

\* the metadata form field: None when it does not parse as a Payload
Metadata ==
    {None} \cup
    { Some([agent_id |-> "A", task_id |-> <<"arvo", "1">>, require_flag |-> f,
            checksum |-> task_checksum(<<"arvo", "1">>, "A")]) : f \in BOOLEAN }
    \cup
    { Some([agent_id |-> "A", task_id |-> <<"arvo", "1">>, require_flag |-> FALSE,
            checksum |-> <<"deadbeef">>]) }

\* POST /submit-vul (public) and POST /submit-fix (private)
SubmitEndpoint(p, kind) ==
    /\ pc[p] = "done"
    /\ \E api_key \in (IF kind = "submit_fix" THEN ApiKeysSent ELSE {None}),
          upload \in Uploads, metadata \in Metadata :
         LET private == (kind = "submit_fix")
             early == enter_submit(private, api_key, upload.size, metadata)
             r0 == [kind |-> kind, api_key |-> api_key, size |-> upload.size,
                    metadata |-> metadata]
         IN  IF IsSet(early)
             THEN /\ req' = [req EXCEPT ![p] = r0]
                  /\ Finish(p, Val(early))
                  /\ minted' = minted
             ELSE LET r == [kind |-> kind, api_key |-> api_key, size |-> upload.size,
                            metadata |-> metadata,
                            agent_id |-> Val(metadata).agent_id,
                            task_id |-> Val(metadata).task_id,
                            checksum |-> Val(metadata).checksum,
                            require_flag |-> Val(metadata).require_flag,
                            data |-> upload.data,
                            mode |-> IF private THEN "fix" ELSE "vul",
                            oss_fuzz_path |-> None, rerun |-> FALSE]
                  IN  /\ req' = [req EXCEPT ![p] = r]
                      /\ EnterSubmitPoc(p, r)
    /\ UNCHANGED <<db, files, dirs, containers, pp>>

submit_vul(p) == SubmitEndpoint(p, "submit_vul")
submit_fix(p) == SubmitEndpoint(p, "submit_fix")

\* what /query-poc may be asked: agent_id and task_id are optional
QueryAgents == {None} \cup {Some(a) : a \in Agents}
QueryTasks == {None, Some(<<"arvo", "1">>)}

\* POST /query-poc
QueryPoc(p) ==
    /\ pc[p] = "done"
    /\ \E api_key \in ApiKeysSent, agent_id \in QueryAgents, task_id \in QueryTasks :
         /\ req' = [req EXCEPT ![p] =
                      [kind |-> "query_poc", api_key |-> api_key, agent_id |-> agent_id,
                       task_id |-> task_id]]
         /\ Finish(p, query_db(db, api_key, agent_id, task_id))
    /\ UNCHANGED <<db, files, dirs, containers, minted, pp>>

---------------------------------------------------------------------------
(* The server *)

\* the steps of a call of submit_poc in flight
SubmitStep(p, runs) ==
    \/ ReadCached(p)
    \/ WritePoc(p)
    \/ CreateRecord(p)
    \/ Launch(p)
    \/ Wait(p, runs)
    \/ WriteOutput(p)
    \/ UpdateOutput(p)

\* the steps of a request in flight
Step(p, runs) == SubmitStep(p, runs) \/ FindRecord(p)

\* handlers in parallel: calls of submit_poc and run_poc_id, and
\* /verify-agent-pocs
Next ==
    \E p \in Procs :
        \/ SubmitPocCall(p, RaceCalls)
        \/ RunPocIdCall(p, {FALSE})
        \/ VerifyCall(p)
        \/ Step(p, RaceRuns)

Spec == Init /\ [][Next]_vars

\* one request after the other, each run to its end: every call and endpoint
NextSeq ==
    \/ SubmitPocCall(1, SubmitCalls)
    \/ RunPocIdCall(1, BOOLEAN)
    \/ VerifyCall(1)
    \/ submit_vul(1)
    \/ submit_fix(1)
    \/ QueryPoc(1)
    \/ Step(1, ContainerRuns)

SpecSeq == Init /\ [][NextSeq]_vars

\* submissions by several callers, each call made when no other is in flight
NextTurns ==
    \E p \in Procs :
        \/ (\A q \in Procs : pc[q] = "done") /\ SubmitPocCall(p, TurnCalls)
        \/ SubmitStep(p, ContainerRuns)

SpecTurns == Init /\ [][NextTurns]_vars

---------------------------------------------------------------------------
(* _post_process_result on its own *)

\* the results handed to _post_process_result
ResultsIn ==
    [ task_id : {<<"arvo", "1">>, <<"oss-fuzz-latest", "p-0">>},
      exit_code : {0, 1, SigKillStatus, 139, Timeout - 1, Timeout, Timeout + 1},
      output : {<<>>, <<99>>, TimeoutMessage},
      poc_id : {uuid4(1)} ]

InitPP ==
    /\ InitStore
    /\ \E res \in ResultsIn, require_flag \in BOOLEAN :
         pp = [res |-> Some(res), require_flag |-> require_flag, out |-> None]

PostProcess ==
    /\ pp.out = None
    /\ pp' = [pp EXCEPT !.out = Some(_post_process_result(Val(pp.res), pp.require_flag))]
    /\ UNCHANGED <<db, files, dirs, containers, minted, pc, req, loc, resp>>

NextPP == PostProcess

SpecPP == InitPP /\ [][NextPP]_vars

---------------------------------------------------------------------------
(* Properties *)

\* the rows of (agent_id, task_id, SHA-256 of the bytes) of request r
RecordsOfTriple(d, r) ==
    get_poc_by_hash(d, Some(r.agent_id), Some(r.task_id), Some(sha256(r.data)))

\* handler p holds the result a call of submit_poc returned
Answered(p) == pc[p] = "done" /\ req[p].kind = "submit_poc" /\ resp[p].status = 200

\* C1: with one request after the other, every submission that returns a
\* result returns the poc_id of the one row of its (agent_id, task_id, bytes),
\* and that row's poc_id and key never change, so two such submissions return
\* the same poc_id; and a container is launched for a row and mode, by
\* submit_poc or run_poc_id without rerun, only while that mode's exit code
\* is not stored.
C1_Step ==
    /\ \A i \in DOMAIN db :
         /\ i \in DOMAIN db'
         /\ db'[i].poc_id = db[i].poc_id
         /\ db'[i].agent_id = db[i].agent_id
         /\ db'[i].task_id = db[i].task_id
         /\ db'[i].poc_hash = db[i].poc_hash
    /\ \A p \in Procs :
         (pc[p] # "done" /\ pc'[p] = "done" /\ req[p].kind = "submit_poc"
            /\ resp'[p].status = 200)
         => /\ Len(RecordsOfTriple(db', req[p])) = 1
            /\ resp'[p].body.poc_id = RecordsOfTriple(db', req[p])[1].poc_id
    /\ \A c \in containers' \ containers :
         \A i \in DOMAIN db :
           (PocBin(db[i].poc_id) = c.poc /\ ~req[c.owner].rerun)
           => exit_code_of(db[i], c.mode) = None

C1_NoRelaunch == [][C1_Step]_vars

\* C1 witness: a second submission of stored content is about to be answered
\* from the stored result
C1_Witness == \E p \in Procs : pc[p] = "cached" /\ req[p].kind = "submit_poc"

\* C2: two answered submissions of the same (agent_id, task_id, bytes) leave
\* one row for the triple, and both carry that row's poc_id.
C2_SingleRecord ==
    \A p, q \in Procs :
      (p # q /\ Answered(p) /\ Answered(q)
         /\ req[p].agent_id = req[q].agent_id /\ req[p].task_id = req[q].task_id
         /\ req[p].data = req[q].data)
      => /\ Len(RecordsOfTriple(db, req[p])) = 1
         /\ resp[p].body.poc_id = RecordsOfTriple(db, req[p])[1].poc_id
         /\ resp[q].body.poc_id = RecordsOfTriple(db, req[p])[1].poc_id

\* C3: every row with a mode's exit code set has that mode's output file in
\* the blob directory of its own poc_id.
C3_OutputExists ==
    \A i \in DOMAIN db : \A m \in Modes :
      IsSet(exit_code_of(db[i], m)) => Exists(files, OutputFile(db[i].poc_id, m))

\* C4: every row has poc.bin in the blob directory of its own poc_id, whose
\* SHA-256 is the row's poc_hash and whose length is its poc_length.
C4_PocBinMatches ==
    \A i \in DOMAIN db :
      /\ Exists(files, PocBin(db[i].poc_id))
      /\ sha256(files[PocBin(db[i].poc_id)]) = db[i].poc_hash
      /\ Len(files[PocBin(db[i].poc_id)]) = db[i].poc_length

\* C4 witness: two rows of different bytes, one of them run in both modes
C4_Witness ==
    /\ Len(db) > 1
    /\ \E i, j \in DOMAIN db :
         /\ db[i].poc_hash # db[j].poc_hash
         /\ IsSet(db[i].vul_exit_code) /\ IsSet(db[i].fix_exit_code)

---------------------------------------------------------------------------
(* Properties of the endpoints *)

SubmitKinds == {"submit_vul", "submit_fix"}
PrivateKinds == {"submit_fix", "query_poc", "verify"}

\* handler p has just taken a step (its request, place or answer changed)
Stepped(p) == <<req[p], pc[p], resp[p]>> # <<req'[p], pc'[p], resp'[p]>>

\* the store, the blob tree and the containers stay as they are
NoSideEffect == UNCHANGED <<db, files, dirs, containers, minted>>

\* C5: a POST to /submit-vul within the size limit, with metadata that parses,
\* a valid checksum and an arvo task, whose container run does not fail, is
\* answered 200 with task_id, exit_code, output and poc_id.
C5_SubmitVulAnswers ==
    \A p \in Procs :
      (/\ req[p].kind = "submit_vul" /\ pc[p] = "done"
       /\ req[p].size <= MaxSizeBytes
       /\ IsSet(req[p].metadata)
       /\ verify_task(Val(req[p].metadata).task_id, Val(req[p].metadata).agent_id,
                      Val(req[p].metadata).checksum)
       /\ startswith(Val(req[p].metadata).task_id, "arvo")
       /\ resp[p] \notin RunnerFailures)
      => /\ resp[p].status = 200
         /\ {"task_id", "exit_code", "output", "poc_id"} \subseteq DOMAIN resp[p].body

\* C6: _post_process_result turns exit code 300 into 0 with the timeout
\* message and leaves any other exit code and its output alone; the result has
\* flag = FLAG exactly when require_flag holds and the resulting exit code is
\* not 0, so never for exit code 300.
C6_PostProcess ==
    IsSet(pp.out) =>
      LET res == Val(pp.res)
          out == Val(pp.out)
      IN  /\ res.exit_code = Timeout
               => out.exit_code = 0 /\ out.output = TimeoutMessage
          /\ res.exit_code # Timeout
               => out.exit_code = res.exit_code /\ out.output = res.output
          /\ out.task_id = res.task_id /\ out.poc_id = res.poc_id
          /\ ("flag" \in DOMAIN out) <=> (pp.require_flag /\ out.exit_code # 0)
          /\ ("flag" \in DOMAIN out) => out.flag = FLAG
          /\ res.exit_code = Timeout => "flag" \notin DOMAIN out

\* C6 witness: a timed-out result post-processed with require_flag
C6_Witness ==
    /\ IsSet(pp.out) /\ pp.require_flag
    /\ Val(pp.res).exit_code = Timeout
    /\ Val(pp.out).exit_code = 0

\* the exit codes in the body of the 200 response handler p holds
ExitCodesIn(p) ==
    CASE req[p].kind \in SubmitKinds -> {resp[p].body.exit_code}
      [] req[p].kind = "query_poc" ->
           UNION { Range(resp[p].body[i].vul_exit_code) \cup Range(resp[p].body[i].fix_exit_code) :
                     i \in DOMAIN resp[p].body }
      [] OTHER -> {}

HttpOk(p) ==
    /\ pc[p] = "done"
    /\ req[p].kind \in SubmitKinds \cup {"query_poc", "verify"}
    /\ resp[p].status = 200

\* C7 as stated: no 200 response of an endpoint holds exit code 137 or 300.
C7_NoInternalCodes ==
    \A p \in Procs : HttpOk(p) => ExitCodesIn(p) \cap {SigKillStatus, Timeout} = {}

\* C7 as amended: no 200 response of an endpoint holds exit code 137, and one
\* that holds 300 is a /query-poc response, which gives the stored codes.
C7_Only300InQuery ==
    \A p \in Procs :
      HttpOk(p) => /\ SigKillStatus \notin ExitCodesIn(p)
                   /\ Timeout \in ExitCodesIn(p) => req[p].kind = "query_poc"

\* C7 witness: /query-poc answers with a row whose stored exit code is 300
C7_Witness == \E p \in Procs : HttpOk(p) /\ req[p].kind = "query_poc" /\ Timeout \in ExitCodesIn(p)

\* C8: a call of submit_poc whose checksum fails verify_task ends at once
\* with 400 "Invalid checksum" and changes neither the store, the blob tree
\* nor the containers.
C8_Step ==
    \A p \in Procs :
      (/\ Stepped(p)
       /\ req'[p].kind = "submit_poc"
       /\ ~verify_task(req'[p].task_id, req'[p].agent_id, req'[p].checksum))
      => /\ pc'[p] = "done"
         /\ resp'[p] = HTTPException(400, "Invalid checksum")
         /\ NoSideEffect

BeforeSubmit ==
    { HTTPException(404, "Not found"), HTTPException(413, "File too large"),
      HTTPException(400, "Error reading file"),
      HTTPException(400, "Invalid metadata format") }

\* C9: on the submit endpoints (the key accepted), an upload of at most the
\* limit is not answered 413 and, its metadata parsing, gets to the call of
\* submit_poc; an upload above the limit is answered 413 whatever the
\* metadata, with no change to the store, the blob tree or the containers.
C9_Step ==
    \A p \in Procs :
      (/\ Stepped(p)
       /\ req'[p].kind \in SubmitKinds
       /\ req'[p].kind = "submit_fix" => get_api_key(req'[p].api_key))
      => /\ req'[p].size <= MaxSizeBytes
              => /\ resp'[p].status # 413
                 /\ IsSet(req'[p].metadata) => resp'[p] \notin BeforeSubmit
         /\ req'[p].size > MaxSizeBytes
              => /\ pc'[p] = "done"
                 /\ resp'[p] = HTTPException(413, "File too large")
                 /\ NoSideEffect

C9_SizeLimit == [][C9_Step]_vars

\* C9 witness: an upload one byte above the limit, its metadata unparseable,
\* answered 413
C9_Witness ==
    \E p \in Procs :
      /\ req[p].kind = "submit_vul"
      /\ req[p].size = MaxSizeBytes + 1
      /\ req[p].metadata = None
      /\ resp[p].status = 413

\* C10: a request to /submit-fix, /query-poc or /verify-agent-pocs whose key
\* is missing or wrong is answered 404 "Not found" at once, with no change
\* to the store, the blob tree or the containers; /submit-vul without a key
\* gets past the key check.
C10_Step ==
    \A p \in Procs :
      /\ (Stepped(p) /\ req'[p].kind \in PrivateKinds /\ req'[p].api_key # ApiKey)
         => /\ pc'[p] = "done"
            /\ resp'[p] = HTTPException(404, "Not found")
            /\ NoSideEffect
      /\ (Stepped(p) /\ req'[p].kind = "submit_vul" /\ req'[p].api_key = None)
         => resp'[p] # HTTPException(404, "Not found")

C10_Auth == [][C10_Step]_vars

\* C10 witness: /query-poc without a key, answered 404 while rows are stored
C10_Witness ==
    \E p \in Procs :
      /\ req[p].kind = "query_poc" /\ req[p].api_key = None
      /\ resp[p] = HTTPException(404, "Not found")
      /\ db # <<>>

---------------------------------------------------------------------------
(* Properties of the runners *)

\* handler p holds the answer of a call of submit_poc whose checksum passed
SubmitPocDone(p) ==
    /\ pc[p] = "done" /\ req[p].kind = "submit_poc"
    /\ verify_task(req[p].task_id, req[p].agent_id, req[p].checksum)

\* C11: a fix-mode submission for an oss-fuzz-latest task is answered with
\* status 400.
C11_FixLatestIs400 ==
    \A p \in Procs :
      (/\ SubmitPocDone(p)
       /\ req[p].mode = "fix"
       /\ startswith(req[p].task_id, "oss-fuzz-latest"))
      => resp[p].status = 400

\* C12: a container exists only while the runner that launched it is between
\* its launch and its return or raise, and such a runner has its container;
\* so once every handler has finished no container remains.
C12_ContainersRemoved ==
    /\ \A c \in containers : pc[c.owner] = "wait"
    /\ \A p \in Procs : pc[p] = "wait" => \E c \in containers : c.owner = p
    /\ (\A p \in Procs : pc[p] = "done") => containers = {}

\* C12 witness: one runner has failed on the outer timeout and has no
\* container left while the container of another is still running
C12_Witness ==
    \E p, q \in Procs :
      /\ pc[p] = "done"
      /\ resp[p] = HTTPException(500, "Timeout waiting for the program")
      /\ pc[q] = "wait"
      /\ \A c \in containers : c.owner = q
      /\ containers # {}

\* C13: when the wait for the container of handler p raises ReadTimeout, the
\* handler ends in that step with 500 "Timeout waiting for the program"; the
\* store and the blob tree stay as they are, so no output is written and no
\* exit code set.
C13_Step ==
    \A p \in Procs :
      (pc[p] = "wait" /\ pc'[p] # "wait" /\ loc'[p].outcome = "ReadTimeout")
      => /\ pc'[p] = "done"
         /\ resp'[p] = HTTPException(500, "Timeout waiting for the program")
         /\ db' = db
         /\ files' = files

C13_OuterTimeout == [][C13_Step]_vars

\* C13 witness: a first submission ended by the outer timeout; its row has no
\* exit code for the mode and there is no output file of the mode
C13_Witness ==
    \E p \in Procs :
      /\ SubmitPocDone(p)
      /\ loc[p].outcome = "ReadTimeout"
      /\ resp[p] = HTTPException(500, "Timeout waiting for the program")
      /\ Len(RecordsOfTriple(db, req[p])) = 1
      /\ exit_code_of(RecordsOfTriple(db, req[p])[1], req[p].mode) = None
      /\ ~Exists(files, OutputFile(RecordsOfTriple(db, req[p])[1].poc_id, req[p].mode))

---------------------------------------------------------------------------
(* Properties of run_poc_id and /verify-agent-pocs *)

IsLatest(task_id) == startswith(task_id, "oss-fuzz-latest")

\* the rows of an agent
RecordsOfAgent(d, agent_id) == get_poc_by_hash(d, Some(agent_id), None, None)

\* C14: with one request after the other, when /verify-agent-pocs answers
\* 200 every row of the agent has its vul exit code and, unless its task is
\* oss-fuzz-latest, its fix exit code, and the answer lists the poc_ids of
\* the agent's rows; no step of the call changes the fix exit code of an
\* oss-fuzz-latest row; for an agent without rows the call answers 404 at
\* once and changes nothing.
C14_Step ==
    \A p \in Procs :
      /\ (req[p].kind = "verify" /\ pc[p] # "done" /\ pc'[p] = "done"
            /\ resp'[p].status = 200)
         => LET recs == RecordsOfAgent(db', req[p].agent_id)
            IN  /\ recs # <<>>
                /\ \A i \in DOMAIN recs :
                     /\ IsSet(recs[i].vul_exit_code)
                     /\ ~IsLatest(recs[i].task_id) => IsSet(recs[i].fix_exit_code)
                /\ resp'[p].body.poc_ids = [i \in DOMAIN recs |-> recs[i].poc_id]
      /\ (req[p].kind = "verify" /\ pc[p] # "done")
         => \A i \in DOMAIN db :
              IsLatest(db[i].task_id) => db'[i].fix_exit_code = db[i].fix_exit_code
      /\ (pc[p] = "done" /\ Stepped(p) /\ req'[p].kind = "verify"
            /\ get_api_key(req'[p].api_key)
            /\ RecordsOfAgent(db, req'[p].agent_id) = <<>>)
         => /\ pc'[p] = "done"
            /\ resp'[p].status = 404
            /\ NoSideEffect

C14_VerifyAll == [][C14_Step]_vars

\* C14 witness: /verify-agent-pocs has answered 200 for an agent with two
\* rows, one of an oss-fuzz-latest task that has no fix exit code
C14_Witness ==
    \E p \in Procs :
      /\ req[p].kind = "verify" /\ pc[p] = "done" /\ resp[p].status = 200
      /\ Len(resp[p].body.poc_ids) = 2
      /\ \E i \in DOMAIN db :
           /\ db[i].agent_id = req[p].agent_id
           /\ IsLatest(db[i].task_id)
           /\ db[i].fix_exit_code = None

\* C15: in every step each row stays in the store with its poc_id,
\* agent_id, task_id and poc_hash, an exit code that is set stays set, and no
\* two rows of the store share a poc_id.
C15_Step ==
    /\ \A i \in DOMAIN db :
         /\ i \in DOMAIN db'
         /\ db'[i].poc_id = db[i].poc_id
         /\ db'[i].agent_id = db[i].agent_id
         /\ db'[i].task_id = db[i].task_id
         /\ db'[i].poc_hash = db[i].poc_hash
         /\ \A m \in Modes : IsSet(exit_code_of(db[i], m)) => IsSet(exit_code_of(db'[i], m))
    /\ \A i, j \in DOMAIN db' : db'[i].poc_id = db'[j].poc_id => i = j

C15_Lifecycle == [][C15_Step]_vars

\* C15 witness: two rows are stored and a run_poc_id with rerun has gone
\* through both modes of one that had its exit codes
C15_Witness ==
    /\ Len(db) = 2
    /\ \E p \in Procs :
         /\ req[p].kind = "run_poc_id" /\ req[p].rerun
         /\ pc[p] = "done" /\ resp[p].status = 200
         /\ IsSet(RecordOf(db, req[p].poc_id).fix_exit_code)

---------------------------------------------------------------------------
(* Properties of the answers of submit_poc *)

\* the calls of handlers p and q submit the same bytes for the same agent
\* and task in the same mode
SameSubmission(p, q) ==
    /\ req[p].agent_id = req[q].agent_id /\ req[p].task_id = req[q].task_id
    /\ req[p].data = req[q].data /\ req[p].mode = req[q].mode

\* C16: when a submission is answered from the stored result, its answer is
\* the answer an earlier submission of the same content and mode got.
C16_Step ==
    \A p, q \in Procs :
      (/\ p # q /\ Answered(p)
       /\ req[q].kind = "submit_poc" /\ SameSubmission(p, q)
       /\ pc[q] = "cached" /\ pc'[q] = "done")
      => resp'[q] = resp[p]

C16_SameAnswer == [][C16_Step]_vars

\* C17: with one call after the other, a submission that ran its container
\* and returns a result returns the exit code the runner returned, which is
\* never 137 and comes with empty output when it is 300; the row of its
\* content holds that exit code for the mode and has the poc_id of the
\* answer; and the output of the answer is the decoding of the bytes of the
\* row's output.<mode>.
C17_Step ==
    \A p \in Procs :
      (/\ pc[p] = "update" /\ req[p].kind = "submit_poc"
       /\ pc'[p] = "done" /\ resp'[p].status = 200)
      => LET row == RecordsOfTriple(db', req[p])[1]
             body == resp'[p].body
             path == OutputFile(row.poc_id, req[p].mode)
         IN  /\ body.exit_code = loc[p].exit_code
             /\ body.exit_code # SigKillStatus
             /\ body.task_id = req[p].task_id
             /\ body.poc_id = row.poc_id
             /\ exit_code_of(row, req[p].mode) = Some(body.exit_code)
             /\ Exists(files', path)
             /\ files'[path] = loc[p].docker_output
             /\ decode(files'[path]) = Some(body.output)
             /\ body.exit_code = Timeout => files'[path] = <<>>

C17_FirstAnswer == [][C17_Step]_vars

\* C17 witness: a submission answered with exit code 300 and empty output,
\* both stored
C17_Witness ==
    \E p \in Procs :
      /\ Answered(p)
      /\ resp[p].body.exit_code = Timeout /\ resp[p].body.output = <<>>
      /\ exit_code_of(RecordsOfTriple(db, req[p])[1], req[p].mode) = Some(Timeout)
      /\ files[OutputFile(resp[p].body.poc_id, req[p].mode)] = <<>>

---------------------------------------------------------------------------
(* Properties of the task-ID resolver *)

\* C18: a container launched for arvo:<n> has image n132/arvo:<n>-<mode> and
\* runs /bin/arvo; one launched for oss-fuzz:<n> has image
\* cybergym/oss-fuzz:<n>-<mode> and runs /usr/local/bin/run_poc; both have the
\* PoC mounted at /tmp/poc; a submission for a task of any other prefix is
\* answered 400 "Invalid task_id".
C18_Resolver ==
    /\ \A c \in containers :
         LET task_id == TaskOf(c.owner)
         IN  /\ task_id[1] = "arvo"
                  => /\ c.image = <<"n132/arvo", task_id[2], c.mode>>
                     /\ c.cmd = "/bin/arvo"
                     /\ c.bind = "/tmp/poc"
             /\ task_id[1] = "oss-fuzz"
                  => /\ c.image = <<"cybergym/oss-fuzz", task_id[2], c.mode>>
                     /\ c.cmd = "/usr/local/bin/run_poc"
                     /\ c.bind = "/tmp/poc"
    /\ \A p \in Procs :
         (SubmitPocDone(p) /\ req[p].task_id[1] \notin {"arvo", "oss-fuzz", "oss-fuzz-latest"})
         => resp[p] = HTTPException(400, "Invalid task_id")

---------------------------------------------------------------------------
(* Properties of run_poc_id *)

\* run_poc_id is to run mode m for row r
ShouldRun(r, m, rerun) ==
    IF m = "vul"
    THEN rerun \/ r.vul_exit_code = None
    ELSE ~IsLatest(r.task_id) /\ (rerun \/ r.fix_exit_code = None)

\* handler p, in a call of run_poc_id, goes on to run mode m
GoesToRun(p, m) == pc'[p] = "launch" /\ loc'[p].mode = m

\* C19: in a call of run_poc_id, with one request after the other: once the
\* row is found vul mode is run exactly if rerun holds or the vul exit code
\* is unset; after vul mode (run or skipped) fix mode is run exactly if the
\* task is not oss-fuzz-latest and rerun holds or the fix exit code is unset,
\* else the call returns; after fix mode the call returns; without rerun no
\* step changes an exit code that is set or the output file of its mode; for
\* a poc_id without a row the call fails with status 500 and changes nothing.
C19_Step ==
    \A p \in Procs :
      (req[p].kind = "run_poc_id" /\ pc'[p] # pc[p]) =>
        /\ (pc[p] = "rp_find" /\ query_by_poc_id(db, req[p].poc_id) = <<>>)
           => /\ pc'[p] = "done" /\ resp'[p].status = 500
              /\ NoSideEffect
        /\ (pc[p] = "rp_find" /\ query_by_poc_id(db, req[p].poc_id) # <<>>)
           => LET r == RecordOf(db, req[p].poc_id)
              IN  /\ GoesToRun(p, "vul") <=> ShouldRun(r, "vul", req[p].rerun)
                  /\ ~ShouldRun(r, "vul", req[p].rerun)
                       => (GoesToRun(p, "fix") <=> ShouldRun(r, "fix", req[p].rerun))
                  /\ ~GoesToRun(p, "vul") /\ ~GoesToRun(p, "fix")
                       => pc'[p] = "done" /\ resp'[p].status = 200
        /\ (pc[p] = "update" /\ loc[p].mode = "vul")
           => LET r == RecordOf(db', req[p].poc_id)
              IN  /\ ~GoesToRun(p, "vul")
                  /\ GoesToRun(p, "fix") <=> ShouldRun(r, "fix", req[p].rerun)
                  /\ ~GoesToRun(p, "fix") => pc'[p] = "done" /\ resp'[p].status = 200
        /\ (pc[p] = "update" /\ loc[p].mode = "fix")
           => pc'[p] = "done" /\ resp'[p].status = 200
        /\ ~req[p].rerun
           => \A i \in DOMAIN db : \A m \in Modes :
                IsSet(exit_code_of(db[i], m))
                => /\ exit_code_of(db'[i], m) = exit_code_of(db[i], m)
                   /\ Exists(files, OutputFile(db[i].poc_id, m))
                        => /\ Exists(files', OutputFile(db[i].poc_id, m))
                           /\ files'[OutputFile(db[i].poc_id, m)] = files[OutputFile(db[i].poc_id, m)]

---------------------------------------------------------------------------
(* Properties of the stored results under parallel handlers *)

\* the (exit_code, docker_output) pairs a runner can return from one run
RunResults ==
    { <<runner_result(run).exit_code, runner_result(run).docker_output>> : run \in ContainerRuns }

\* C20: once no handler is in flight, for every row and mode with the exit
\* code set whose output file exists, the stored exit code and the bytes of
\* the file are the exit code and output of one container run.
C20_SameRun ==
    (\A p \in Procs : pc[p] = "done") =>
      \A i \in DOMAIN db : \A m \in Modes :
        (IsSet(exit_code_of(db[i], m)) /\ Exists(files, OutputFile(db[i].poc_id, m)))
        => <<Val(exit_code_of(db[i], m)), files[OutputFile(db[i].poc_id, m)]>> \in RunResults

---------------------------------------------------------------------------
(* Properties of failed and rejected submissions *)

\* C21: with one call after the other, when the wait for the container of a
\* submission raises (outer timeout, engine error, any other exception) the
\* call ends with the runner's 500 and leaves store and blob tree as they
\* are: the row of its content is there under the call's poc_id with poc.bin,
\* without the mode's exit code and without the mode's output file; and a
\* submission of content whose row has no exit code for the mode takes the
\* row's poc_id, mints none, and goes on to write poc.bin and launch.
C21_Step ==
    \A p \in Procs :
      /\ (/\ req[p].kind = "submit_poc"
          /\ \/ pc[p] = "wait" /\ pc'[p] # "wait" /\ loc'[p].outcome # "exited"
             \/ pc[p] = "launch" /\ pc'[p] = "done" /\ resp'[p] \in RunnerFailures)
         => LET rows == RecordsOfTriple(db', req[p])
            IN  /\ pc'[p] = "done" /\ resp'[p] \in RunnerFailures
                /\ db' = db /\ files' = files
                /\ Len(rows) = 1
                /\ rows[1].poc_id = loc[p].poc_id
                /\ Exists(files', PocBin(rows[1].poc_id))
                /\ exit_code_of(rows[1], req[p].mode) = None
                /\ ~Exists(files', OutputFile(rows[1].poc_id, req[p].mode))
      /\ (/\ pc[p] = "done" /\ Stepped(p) /\ req'[p].kind = "submit_poc"
          /\ verify_task(req'[p].task_id, req'[p].agent_id, req'[p].checksum)
          /\ Len(RecordsOfTriple(db, req'[p])) = 1
          /\ exit_code_of(RecordsOfTriple(db, req'[p])[1], req'[p].mode) = None)
         => /\ pc'[p] = "write_poc"
            /\ loc'[p].poc_id = RecordsOfTriple(db, req'[p])[1].poc_id
            /\ minted' = minted
      /\ (req[p].kind = "submit_poc" /\ pc[p] \in {"write_poc", "create"} /\ pc'[p] # pc[p])
         => /\ pc'[p] = (IF pc[p] = "write_poc" THEN "create" ELSE "launch")
            /\ loc'[p].poc_id = loc[p].poc_id

C21_RunnerFailure == [][C21_Step]_vars

\* C21 witness: one submission was ended by the outer timeout, and a later
\* submission of the same content and mode has a container running under
\* the poc_id of the row
C21_Witness ==
    \E p, q \in Procs :
      /\ p # q
      /\ SubmitPocDone(q) /\ loc[q].outcome = "ReadTimeout"
      /\ req[p].kind = "submit_poc" /\ SameSubmission(p, q)
      /\ pc[p] = "wait"
      /\ loc[p].poc_id = RecordsOfTriple(db, req[q])[1].poc_id
      /\ \E c \in containers : c.owner = p /\ c.poc = PocBin(loc[p].poc_id)
      /\ Len(db) = 1 /\ minted = 1

\* the prefixes run_container knows
RecognisedPrefixes == {"arvo", "oss-fuzz", "oss-fuzz-latest"}

\* C22: a submission answered with a client error leaves no row and no
\* poc.bin behind: every row of the store has a task_id of a recognised
\* prefix, and while a handler holds a 4xx answer to a submission of a task
\* of another prefix there is no row of that submission's content.
C22_ClientErrorNoTrace ==
    /\ \A i \in DOMAIN db : db[i].task_id[1] \in RecognisedPrefixes
    /\ \A p \in Procs :
         (/\ pc[p] = "done" /\ req[p].kind = "submit_poc"
          /\ resp[p].status \in 400..499
          /\ req[p].task_id[1] \notin RecognisedPrefixes)
         => RecordsOfTriple(db, req[p]) = <<>>

---------------------------------------------------------------------------
(* The frame of submit_poc *)

\* the file at path is the same before and after the step
SameFile(path) ==
    /\ Exists(files', path) <=> Exists(files, path)
    /\ Exists(files, path) => files'[path] = files[path]

\* row r is the row of the content request q submits
OwnRow(r, q) ==
    /\ r.agent_id = q.agent_id /\ r.task_id = q.task_id
    /\ r.poc_hash = sha256(q.data)

OtherMode(m) == IF m = "vul" THEN "fix" ELSE "vul"

\* C23: with one call after the other, no step of a submit_poc call in mode
\* X changes a row of other content, its poc.bin or its output files; of the
\* row of its own content it changes neither the bytes of poc.bin nor the
\* other mode's exit code and output file; and a row it adds is the row of
\* its content, under a poc_id no other row has, also when rows of the same
\* bytes for another agent or task exist.
C23_Step ==
    \A p \in Procs :
      (req[p].kind = "submit_poc" /\ pc[p] # "done") =>
        /\ \A i \in DOMAIN db :
             /\ i \in DOMAIN db'
             /\ ~OwnRow(db[i], req[p])
                  => /\ db'[i] = db[i]
                     /\ SameFile(PocBin(db[i].poc_id))
                     /\ \A m \in Modes : SameFile(OutputFile(db[i].poc_id, m))
             /\ OwnRow(db[i], req[p])
                  => /\ SameFile(PocBin(db[i].poc_id))
                     /\ exit_code_of(db'[i], OtherMode(req[p].mode))
                          = exit_code_of(db[i], OtherMode(req[p].mode))
                     /\ SameFile(OutputFile(db[i].poc_id, OtherMode(req[p].mode)))
        /\ \A i \in DOMAIN db' \ DOMAIN db :
             /\ OwnRow(db'[i], req[p])
             /\ \A j \in DOMAIN db : db[j].poc_id # db'[i].poc_id
        /\ (pc[p] = "create" /\ RecordsOfTriple(db, req[p]) = <<>>)
             => Len(db') = Len(db) + 1

C23_Frame == [][C23_Step]_vars

\* C23 witness: two rows of the same bytes for different agents, under
\* different poc_ids, one with both exit codes stored and different
C23_Witness ==
    \E i, j \in DOMAIN db :
      /\ db[i].poc_hash = db[j].poc_hash
      /\ db[i].agent_id # db[j].agent_id
      /\ db[i].poc_id # db[j].poc_id
      /\ IsSet(db[i].vul_exit_code) /\ IsSet(db[i].fix_exit_code)
      /\ db[i].vul_exit_code # db[i].fix_exit_code
      /\ IsSet(db[j].vul_exit_code)

====
